---- MODULE Spec2Model ----
(***************************************************************************)
(* The initialization lifecycle and the transport adapters of the MCP CV   *)
(* backend: MCPCVServer with its stdio handlers and serverless routes      *)
(* (src/src/index.js) and WebServer with its REST routes                   *)
(* (src/src/web-server.js).                                                *)
(*                                                                         *)
(* One behaviour is one process: `adapter` says which server object the    *)
(* process holds and `entry` how it was started.  The three collaborators  *)
(* EmailService, CVParser and MCPTools are required by both files but are  *)
(* not part of the sources at hand; they are modelled from the             *)
(* specification of their boundary.                                        *)
(***************************************************************************)
EXTENDS Integers, Sequences, FiniteSets, TLC

\* Number of initialize() invocations one behaviour may start.
MaxInit == 2

(***************************************************************************)
(* Optional values: a JavaScript reference that may be null.               *)
(***************************************************************************)
Null == << >>
Some(x) == << x >>
IsNull(o) == o = << >>
Val(o) == o[1]

(***************************************************************************)
(* CVRecord.  `personal` is a sequence of <<key, value>> pairs; the other  *)
(* sections are sequences of words.                                        *)
(***************************************************************************)
EmptyRecord ==
    [personal |-> << >>, experience |-> << >>, education |-> << >>,
     skills |-> << >>, rawText |-> << >>]

ParsedRecord ==
    [personal |-> << <<"name", "Ada">> >>,
     experience |-> << "Engineer" >>,
     education |-> << "Mathematics" >>,
     skills |-> << "Go", "Rust" >>,
     rawText |-> << "Ada", "Lovelace", "Rust" >>]

\* What a successful parse of the document can return.
ParsedRecords == {ParsedRecord}

(***************************************************************************)
(* Tool catalogue.                                                         *)
(***************************************************************************)
ToolNames ==
    << "get_personal_info", "get_work_experience", "get_education",
       "get_skills", "search_cv", "send_email" >>

getToolDefinitions == ToolNames

\* Argument mappings a request may carry; "" stands for an absent or empty
\* value (both are falsy in the adapters' tests and fail validation alike).
NoArgs == [query |-> "", recipient |-> "", subject |-> "", body |-> ""]
ArgChoices ==
    { NoArgs,
      [NoArgs EXCEPT !.subject = "Hi", !.body = "x"],
      [NoArgs EXCEPT !.recipient = "a@b.com", !.body = "x"],
      [NoArgs EXCEPT !.recipient = "a@b.com", !.subject = "Hi"],
      [NoArgs EXCEPT !.recipient = "a@b.com", !.subject = "Hi", !.body = "x"] }

\* String.prototype.trim and toLowerCase on the words of the model.
Trim(s) == IF s = " " THEN "" ELSE s
Lower(s) ==
    CASE s = "RUST" -> "rust"
      [] s = "Rust" -> "rust"
      [] s = "Ada" -> "ada"
      [] s = "Go" -> "go"
      [] s = "Lovelace" -> "lovelace"
      [] s = "Engineer" -> "engineer"
      [] s = "Mathematics" -> "mathematics"
      [] OTHER -> s

\* The entries of one section that match a query, in order.
RECURSIVE MatchesIn(_, _, _)
MatchesIn(section, words, q) ==
    IF words = << >> THEN << >>
    ELSE (IF Lower(Head(words)) = Lower(q)
             THEN << <<section, Head(words)>> >> ELSE << >>)
         \o MatchesIn(section, Tail(words), q)

SearchCV(rec, q) ==
    MatchesIn("experience", rec.experience, q)
      \o MatchesIn("education", rec.education, q)
      \o MatchesIn("skills", rec.skills, q)
      \o MatchesIn("rawText", rec.rawText, q)

(***************************************************************************)
(* ToolResult.  A JSON object is a record; its keys are its DOMAIN.        *)
(***************************************************************************)
Ok(data) == [success |-> TRUE, data |-> data]

Err(kind, name) ==
    [success |-> FALSE, error |-> kind, tool |-> name, timestamp |-> "ts"]

(***************************************************************************)
(* MCPTools: the dispatcher.  A dispatcher is its record and its channel   *)
(* reference.  `delivered` is whether the channel's send succeeds.         *)
(***************************************************************************)
MCPTools(cvData, emailService) == [record |-> cvData, channel |-> emailService]

Configured(channel) == ~IsNull(channel) /\ Val(channel).configured

ValidMail(args) == args.recipient # "" /\ args.subject # "" /\ args.body # ""

executeTool(disp, name, args, delivered) ==
    CASE name = "get_personal_info" -> Ok(disp.record.personal)
      [] name = "get_work_experience" -> Ok(disp.record.experience)
      [] name = "get_education" -> Ok(disp.record.education)
      [] name = "get_skills" -> Ok(disp.record.skills)
      [] name = "search_cv" ->
            IF Trim(args.query) = "" THEN Err("InvalidArguments", name)
            ELSE Ok(SearchCV(disp.record, Trim(args.query)))
      [] name = "send_email" ->
            IF ~ValidMail(args) THEN Err("InvalidArguments", name)
            ELSE IF ~Configured(disp.channel)
              THEN Err("ChannelUnavailable", name)
            ELSE IF ~delivered THEN Err("DeliveryFailed", name)
            ELSE Ok(<< "receipt" >>)
      [] OTHER -> Err("UnknownTool", name)

\* Whether executeTool hands a message to the channel's deliver operation.
SendAttempted(disp, name, args) ==
    name = "send_email" /\ ValidMail(args) /\ Configured(disp.channel)

(***************************************************************************)
(* `this.mcpTools.executeTool(...)` inside an adapter's try block: calling *)
(* a method on a null reference throws a TypeError, which the surrounding  *)
(* catch receives.                                                         *)
(***************************************************************************)
Call(ref, name, args, delivered) ==
    IF IsNull(ref)
      THEN [thrown |-> TRUE,
            message |-> "Cannot read properties of null"]
      ELSE [thrown |-> FALSE,
            result |-> executeTool(Val(ref), name, args, delivered)]

(***************************************************************************)
(* State.                                                                  *)
(***************************************************************************)
VARIABLES
    adapter,        \* "mcp": index.js is the process; "web": web-server.js
    entry,          \* how the server object is driven, see Entries
    env,            \* the process environment the channel is built from
    mcpTools,       \* this.mcpTools
    isInitialized,  \* this.isInitialized
    emailService,   \* MCPCVServer's this.emailService
    cvParser,       \* MCPCVServer's this.cvParser: the invocation that made it
    inv,            \* the invocations of initialize()
    accepting,      \* app.listen / server.connect has been called
    exited,         \* process.exit(1) has been called
    resp            \* the response a handler has produced, until it is sent

vars ==
    << adapter, entry, env, mcpTools, isInitialized, emailService, cvParser,
       inv, accepting, exited, resp >>

Invs == 1..MaxInit

\* new EmailService() under the process environment.
Envs ==
    { [ctorThrows |-> c[1], configured |-> c[2], debug |-> debug] :
        c \in { <<TRUE, FALSE>>, <<FALSE, FALSE>>, <<FALSE, TRUE>> },
        debug \in BOOLEAN }

NewEmailService == [configured |-> env.configured]

IdleInv ==
    [pc |-> "idle", caller |-> "none",
     cvData |-> Null, chan |-> Null, ret |-> "none",
     parse |-> "none", probe |-> "none", built |-> Null]

NoResp ==
    [route |-> "none", status |-> 0, body |-> << >>, disp |-> Null,
     called |-> FALSE, tool |-> "", outcome |-> "none", sent |-> FALSE]

\* web-server.js run directly calls start() on its WebServer; index.js run
\* directly initializes its module-level mcpServer and then listens
\* ("direct"), and as a serverless function its app receives requests as
\* soon as the module is loaded ("serverless").  The exported classes can be
\* constructed by another module, which calls start() or drives the object
\* itself ("embedded").
Entries ==
    { <<"web", "start">>, <<"web", "embedded">>,
      <<"mcp", "start">>, <<"mcp", "embedded">>,
      <<"mcp", "direct">>, <<"mcp", "serverless">> }

Init ==
    /\ \E ae \in Entries : adapter = ae[1] /\ entry = ae[2]
    /\ env \in Envs
    /\ adapter = "mcp" => ~env.debug      \* index.js does not read DEBUG
    /\ mcpTools = Null
    /\ isInitialized = FALSE
    /\ emailService = Null
    /\ cvParser = 0
    /\ inv = [i \in Invs |-> IdleInv]
    /\ accepting = FALSE
    /\ exited = FALSE
    /\ resp = NoResp

\* The process is alive and no response is pending.  What a handler answers
\* is fixed by what it reads in the turn in which it calls the dispatcher;
\* the response is kept with that state, and the next callback is taken
\* once it has been sent.
Running == ~exited /\ resp = NoResp

\* Invocations are numbered in the order they are started.
CanStart(i) ==
    /\ inv[i].pc = "idle"
    /\ \A j \in Invs : j < i => inv[j].pc # "idle"

(***************************************************************************)
(* WebServer.initialize                                                    *)
(***************************************************************************)
\* A dispatcher constructed before the parse has delivered its record.
WebDispatcherBeforeParse(cvData, channel) == MCPTools(EmptyRecord, channel)

WebDispatcher(cvData, channel) == MCPTools(cvData, channel)

\* A lifecycle that drops the dispatcher of the previous one at its start.
WebToolsCleared == Null

\* initialize() leaves this.mcpTools as it is until a dispatcher is built.
WebToolsAtEntry == mcpTools

WebFallback == MCPTools(EmptyRecord, Some(NewEmailService))

\* A lifecycle that reports ready only when the probe succeeded.
WebReadyFlagIfProbeOk(success) == success

\* this.isInitialized = true after the probe, whatever it reported.
WebReadyFlag(success) == TRUE

\* A catch block that leaves the flag as it was at construction.
WebFallbackFlagUnset == FALSE

\* this.isInitialized = true at the end of the catch block.
WebFallbackFlag == TRUE

\* The catch block, entered by invocation i whose record is r.  The second
\* new EmailService() throws out of the catch block when the constructor
\* throws, and the promise of initialize() is then rejected.
WebCatch(i, r) ==
    IF env.ctorThrows
      THEN /\ inv' = [inv EXCEPT ![i] = [r EXCEPT !.pc = "rejected"]]
           /\ UNCHANGED << mcpTools, isInitialized >>
      ELSE /\ mcpTools' = Some(WebFallback)
           /\ isInitialized' = WebFallbackFlag
           /\ inv' = [inv EXCEPT ![i] =
                        [r EXCEPT !.pc = "resolved", !.ret = "false",
                                  !.built = Some(WebFallback)]]

\* Entry to the first await: the channel is constructed and parseCV called.
WebInitialize(i, caller) ==
    /\ Running /\ adapter = "web" /\ CanStart(i)
    /\ IF env.ctorThrows
         THEN WebCatch(i, [inv[i] EXCEPT !.caller = caller])
         ELSE /\ inv' = [inv EXCEPT ![i].pc = "awaitParse",
                                    ![i].caller = caller,
                                    ![i].chan = Some(NewEmailService)]
              /\ mcpTools' = WebToolsAtEntry
              /\ UNCHANGED isInitialized
    /\ UNCHANGED << adapter, entry, env, emailService, cvParser, accepting,
                    exited, resp >>

WebParseResolved(i, cvData) ==
    /\ Running /\ adapter = "web" /\ inv[i].pc = "awaitParse"
    /\ mcpTools' = Some(WebDispatcher(cvData, inv[i].chan))
    /\ inv' = [inv EXCEPT ![i].pc = "awaitProbe", ![i].cvData = Some(cvData),
                          ![i].parse = "ok",
                          ![i].built = Some(WebDispatcher(cvData, inv[i].chan))]
    /\ UNCHANGED << adapter, entry, env, isInitialized, emailService, cvParser,
                    accepting, exited, resp >>

WebParseRejected(i) ==
    /\ Running /\ adapter = "web" /\ inv[i].pc = "awaitParse"
    /\ WebCatch(i, [inv[i] EXCEPT !.parse = "fail"])
    /\ UNCHANGED << adapter, entry, env, emailService, cvParser, accepting,
                    exited, resp >>

WebProbeReturned(i, success) ==
    /\ Running /\ adapter = "web" /\ inv[i].pc = "awaitProbe"
    /\ isInitialized' = WebReadyFlag(success)
    /\ inv' = [inv EXCEPT ![i].pc = "resolved", ![i].ret = "true",
                          ![i].probe = IF success THEN "ok" ELSE "fail"]
    /\ UNCHANGED << adapter, entry, env, mcpTools, emailService, cvParser,
                    accepting, exited, resp >>

WebProbeRejected(i) ==
    /\ Running /\ adapter = "web" /\ inv[i].pc = "awaitProbe"
    /\ WebCatch(i, [inv[i] EXCEPT !.probe = "throw"])
    /\ UNCHANGED << adapter, entry, env, emailService, cvParser, accepting,
                    exited, resp >>

(***************************************************************************)
(* WebServer.start and the direct-run branch of web-server.js              *)
(***************************************************************************)
WebStart ==
    /\ entry = "start"
    /\ WebInitialize(1, "start")

WebStartListen ==
    /\ Running /\ adapter = "web" /\ entry = "start"
    /\ inv[1].caller = "start" /\ inv[1].pc = "resolved"
    /\ accepting' = TRUE
    /\ inv' = [inv EXCEPT ![1].pc = "returned"]
    /\ UNCHANGED << adapter, entry, env, mcpTools, isInitialized, emailService,
                    cvParser, exited, resp >>

WebStartFatal ==
    /\ Running /\ adapter = "web" /\ entry = "start"
    /\ inv[1].caller = "start" /\ inv[1].pc = "rejected"
    /\ exited' = TRUE
    /\ UNCHANGED << adapter, entry, env, mcpTools, isInitialized, emailService,
                    cvParser, inv, accepting, resp >>

\* initialize() called on a WebServer constructed by another module.
WebReinitialize(i) ==
    /\ entry = "embedded"
    /\ WebInitialize(i, "ext")

(***************************************************************************)
(* MCPCVServer.initialize                                                  *)
(***************************************************************************)
McpDispatcher(cvData) == MCPTools(cvData, emailService)

\* A lifecycle that drops the previous dispatcher when it begins.
McpToolsCleared == Null

\* initialize() leaves this.mcpTools as it is until a dispatcher is built.
McpToolsAtEntry == mcpTools

McpFallback == MCPTools(EmptyRecord, emailService)

McpReadyFlag(success) == TRUE

\* A catch block that marks the failed lifecycle as not initialized.
McpFallbackFlagCleared == FALSE

McpFallbackFlag == TRUE

McpCatch(i, r) ==
    /\ mcpTools' = Some(McpFallback)
    /\ isInitialized' = McpFallbackFlag
    /\ inv' = [inv EXCEPT ![i] =
                 [r EXCEPT !.pc = "resolved", !.ret = "false",
                           !.built = Some(McpFallback)]]

McpInitialize(i, caller) ==
    /\ Running /\ adapter = "mcp" /\ CanStart(i)
    /\ IF env.ctorThrows
         THEN /\ McpCatch(i, [inv[i] EXCEPT !.caller = caller])
              /\ UNCHANGED << emailService, cvParser >>
         ELSE /\ emailService' = Some(NewEmailService)
              /\ cvParser' = i
              /\ inv' = [inv EXCEPT ![i].pc = "awaitParse",
                                    ![i].caller = caller]
              /\ mcpTools' = McpToolsAtEntry
              /\ UNCHANGED isInitialized
    /\ UNCHANGED << adapter, entry, env, accepting, exited, resp >>

McpParseResolved(i, cvData) ==
    /\ Running /\ adapter = "mcp" /\ inv[i].pc = "awaitParse"
    /\ mcpTools' = Some(McpDispatcher(cvData))
    /\ inv' = [inv EXCEPT ![i].pc = "awaitProbe", ![i].cvData = Some(cvData),
                          ![i].parse = "ok",
                          ![i].built = Some(McpDispatcher(cvData))]
    /\ UNCHANGED << adapter, entry, env, isInitialized, emailService, cvParser,
                    accepting, exited, resp >>

McpParseRejected(i) ==
    /\ Running /\ adapter = "mcp" /\ inv[i].pc = "awaitParse"
    /\ McpCatch(i, [inv[i] EXCEPT !.parse = "fail"])
    /\ UNCHANGED << adapter, entry, env, emailService, cvParser, accepting,
                    exited, resp >>

McpProbeReturned(i, success) ==
    /\ Running /\ adapter = "mcp" /\ inv[i].pc = "awaitProbe"
    /\ isInitialized' = McpReadyFlag(success)
    /\ inv' = [inv EXCEPT ![i].pc = "resolved", ![i].ret = "true",
                          ![i].probe = IF success THEN "ok" ELSE "fail"]
    /\ UNCHANGED << adapter, entry, env, mcpTools, emailService, cvParser,
                    accepting, exited, resp >>

McpProbeRejected(i) ==
    /\ Running /\ adapter = "mcp" /\ inv[i].pc = "awaitProbe"
    /\ McpCatch(i, [inv[i] EXCEPT !.probe = "throw"])
    /\ UNCHANGED << adapter, entry, env, emailService, cvParser, accepting,
                    exited, resp >>

(***************************************************************************)
(* MCPCVServer.start (stdio) and the direct-run branch of index.js         *)
(***************************************************************************)
McpStart ==
    /\ entry \in {"start", "direct"}
    /\ McpInitialize(1, entry)

\* start(): the transport is connected once initialize() has resolved.
McpStartConnect ==
    /\ Running /\ adapter = "mcp" /\ entry = "start"
    /\ inv[1].caller = "start" /\ inv[1].pc = "resolved"
    /\ accepting' = TRUE
    /\ inv' = [inv EXCEPT ![1].pc = "returned"]
    /\ UNCHANGED << adapter, entry, env, mcpTools, isInitialized, emailService,
                    cvParser, exited, resp >>

\* mcpServer.initialize().then(() => app.listen(PORT))
McpDirectListen ==
    /\ Running /\ adapter = "mcp" /\ entry = "direct"
    /\ inv[1].caller = "direct" /\ inv[1].pc = "resolved"
    /\ accepting' = TRUE
    /\ inv' = [inv EXCEPT ![1].pc = "returned"]
    /\ UNCHANGED << adapter, entry, env, mcpTools, isInitialized, emailService,
                    cvParser, exited, resp >>

Lifecycle ==
    \/ WebStart
    \/ WebStartListen
    \/ WebStartFatal
    \/ \E i \in Invs : WebReinitialize(i)
    \/ \E i \in Invs, cvData \in ParsedRecords : WebParseResolved(i, cvData)
    \/ \E i \in Invs : WebParseRejected(i)
    \/ \E i \in Invs, success \in BOOLEAN : WebProbeReturned(i, success)
    \/ \E i \in Invs : WebProbeRejected(i)
    \/ McpStart
    \/ McpStartConnect
    \/ McpDirectListen
    \/ \E i \in Invs, cvData \in ParsedRecords : McpParseResolved(i, cvData)
    \/ \E i \in Invs : McpParseRejected(i)
    \/ \E i \in Invs, success \in BOOLEAN : McpProbeReturned(i, success)
    \/ \E i \in Invs : McpProbeRejected(i)

(***************************************************************************)
(* Responses.  Beside what the client receives (status, body), a response *)
(* records what the handler did: the dispatcher reference it called        *)
(* (`disp`), whether it invoked executeTool on a dispatcher (`called`),    *)
(* with which tool name and which outcome, and whether the call reached    *)
(* the channel's deliver operation (`sent`).                               *)
(***************************************************************************)
Reply(route, status, body) ==
    [route |-> route, status |-> status, body |-> body, disp |-> Null,
     called |-> FALSE, tool |-> "", outcome |-> "none", sent |-> FALSE]

Outcome(result) ==
    IF result.success THEN "Success"
    ELSE IF "error" \in DOMAIN result THEN result.error
    ELSE ""

Dispatched(route, status, body, name, args, result) ==
    [route |-> route, status |-> status, body |-> body, disp |-> mcpTools,
     called |-> TRUE, tool |-> name, outcome |-> Outcome(result),
     sent |-> SendAttempted(Val(mcpTools), name, args)]

\* executeTool of the dispatcher in place rejected with an Error: the handler
\* did call the dispatcher, and what it answers comes from its catch block.
Thrown(route, status, body, name) ==
    [route |-> route, status |-> status, body |-> body, disp |-> mcpTools,
     called |-> TRUE, tool |-> name, outcome |-> "Thrown", sent |-> FALSE]

\* The tools on whose execution the dispatcher is taken to throw.
ThrownTools == {"get_work_experience", "send_email"}

\* error.message of an Error that the dispatcher threw.
ThrownMessage == "Tool execution failed"

NotInitialized ==
    [error |-> "Server not properly initialized", timestamp |-> "ts"]

Respond(r) ==
    /\ resp' = r
    /\ UNCHANGED << adapter, entry, env, mcpTools, isInitialized, emailService,
                    cvParser, inv, accepting, exited >>

\* The requests a client may send: a tool name with an argument mapping.
Requests ==
    { <<"get_work_experience", NoArgs>>,
      <<"search_cv", [NoArgs EXCEPT !.query = "RUST"]>>,
      <<"search_cv", [NoArgs EXCEPT !.query = " "]>>,
      <<"send_email", [NoArgs EXCEPT !.recipient = "a@b.com"]>>,
      <<"send_email", [NoArgs EXCEPT !.recipient = "a@b.com",
                                     !.subject = "Hi", !.body = "x"]>>,
      <<"bogus", NoArgs>> }

\* Whether the channel's deliver succeeds matters only where it is reached.
Deliveries(rq) ==
    IF rq[1] = "send_email" /\ ValidMail(rq[2]) THEN BOOLEAN ELSE {FALSE}

(***************************************************************************)
(* WebServer.setupRoutes                                                   *)
(***************************************************************************)
\* A server whose port is open as soon as the object is constructed.
WebAcceptsBeforeListen == Running /\ adapter = "web"

WebAccepts == Running /\ adapter = "web" /\ (entry = "embedded" \/ accepting)

WebGate == ~isInitialized \/ IsNull(mcpTools)

WebRootResponse ==
    Reply("GET /", 200,
          [message |-> "MCP CV Backend API", status |-> "running",
           timestamp |-> "ts", initialized |-> isInitialized])

WebHealthResponse ==
    Reply("GET /health", 200,
          [status |-> "healthy", initialized |-> isInitialized,
           timestamp |-> "ts"])

WebToolsResponse ==
    IF WebGate THEN Reply("GET /api/tools", 503, NotInitialized)
    ELSE Reply("GET /api/tools", 200,
               [success |-> TRUE, tools |-> getToolDefinitions,
                count |-> Len(getToolDefinitions)])

\* The catch block of POST /api/tools/:toolName.
WebToolCatch(message, toolName) ==
    [error |-> message, tool |-> toolName, timestamp |-> "ts"]

WebToolResponse(toolName, args, delivered) ==
    IF WebGate THEN Reply("POST /api/tools/:toolName", 503, NotInitialized)
    ELSE LET c == Call(mcpTools, toolName, args, delivered) IN
         IF c.thrown
           THEN Reply("POST /api/tools/:toolName", 500,
                      WebToolCatch(c.message, toolName))
           ELSE Dispatched("POST /api/tools/:toolName", 200, c.result,
                           toolName, args, c.result)

\* The three branches over a returned result (lines 142-168).
WebMcpResult(result, tool, args) ==
    IF result.success /\ "data" \in DOMAIN result
      THEN Dispatched("POST /api/mcp", 200,
                      [success |-> TRUE, data |-> result.data,
                       summary |-> IF "summary" \in DOMAIN result
                                     THEN result.summary
                                     ELSE "executed successfully",
                       tool |-> tool, timestamp |-> "ts"],
                      tool, args, result)
    ELSE IF "error" \in DOMAIN result /\ result.error # ""
      THEN Dispatched("POST /api/mcp", 400,
                      [error |-> result.error, tool |-> tool,
                       timestamp |-> "ts"],
                      tool, args, result)
    ELSE Dispatched("POST /api/mcp", 200,
                    [success |-> TRUE, data |-> result, tool |-> tool,
                     timestamp |-> "ts"],
                    tool, args, result)

\* A catch block that adds error.stack whether or not DEBUG is set.
WebMcpCatchAlwaysStack(message, tool) ==
    [error |-> message, tool |-> tool, timestamp |-> "ts",
     details |-> "stack"]

\* The catch block of POST /api/mcp: error.stack is added when
\* process.env.DEBUG is set; a key whose value is undefined is left out of
\* the JSON text.
WebMcpCatch(message, tool) ==
    IF env.debug
      THEN [error |-> message, tool |-> tool, timestamp |-> "ts",
            details |-> "stack"]
      ELSE [error |-> message, tool |-> tool, timestamp |-> "ts"]

WebMcpResponse(tool, args, delivered) ==
    IF tool = ""
      THEN Reply("POST /api/mcp", 400,
                 [error |-> "Tool name is required", timestamp |-> "ts"])
    ELSE IF WebGate THEN Reply("POST /api/mcp", 503, NotInitialized)
    ELSE LET c == Call(mcpTools, tool, args, delivered) IN
         IF c.thrown
           THEN Reply("POST /api/mcp", 500,
                      WebMcpCatch(c.message, tool))
           ELSE WebMcpResult(c.result, tool, args)

\* The try/catch shared by the convenience endpoints: no readiness gate.
WebConvenienceCatch(message) == [error |-> message]

WebConvenience(route, name, args, delivered) ==
    LET c == Call(mcpTools, name, args, delivered) IN
    IF c.thrown THEN Reply(route, 500, WebConvenienceCatch(c.message))
    ELSE Dispatched(route, 200, c.result, name, args, c.result)

WebPersonalResponse ==
    WebConvenience("GET /api/personal", "get_personal_info", NoArgs, FALSE)

WebExperienceResponse ==
    WebConvenience("GET /api/experience", "get_work_experience", NoArgs, FALSE)

WebEducationResponse ==
    WebConvenience("GET /api/education", "get_education", NoArgs, FALSE)

WebSkillsResponse ==
    WebConvenience("GET /api/skills", "get_skills", NoArgs, FALSE)

WebSearchResponse(query) ==
    IF query = ""
      THEN Reply("POST /api/search", 400,
                 [error |-> "Query parameter is required"])
      ELSE WebConvenience("POST /api/search", "search_cv",
                          [NoArgs EXCEPT !.query = query], FALSE)

\* A route that only looks at the recipient before it calls the dispatcher.
WebEmailResponseRecipientOnly(args, delivered) ==
    IF args.recipient = ""
      THEN Reply("POST /api/email", 400,
                 [error |-> "Missing required fields"])
      ELSE WebConvenience("POST /api/email", "send_email",
                          [NoArgs EXCEPT !.recipient = args.recipient,
                                         !.subject = args.subject,
                                         !.body = args.body],
                          delivered)

WebEmailResponse(args, delivered) ==
    IF ~ValidMail(args)
      THEN Reply("POST /api/email", 400,
                 [error |-> "Missing required fields"])
      ELSE WebConvenience("POST /api/email", "send_email",
                          [NoArgs EXCEPT !.recipient = args.recipient,
                                         !.subject = args.subject,
                                         !.body = args.body],
                          delivered)

WebNotFoundResponse ==
    Reply("*", 404,
          [error |-> "Route not found", path |-> "/nowhere",
           timestamp |-> "ts"])

WebGetRoot == WebAccepts /\ Respond(WebRootResponse)
WebGetHealth == WebAccepts /\ Respond(WebHealthResponse)
WebGetTools == WebAccepts /\ Respond(WebToolsResponse)
WebPostTool(toolName, args, delivered) ==
    WebAccepts /\ Respond(WebToolResponse(toolName, args, delivered))
WebPostMcp(tool, args, delivered) ==
    WebAccepts /\ Respond(WebMcpResponse(tool, args, delivered))
WebGetPersonal == WebAccepts /\ Respond(WebPersonalResponse)
WebGetExperience == WebAccepts /\ Respond(WebExperienceResponse)
WebGetEducation == WebAccepts /\ Respond(WebEducationResponse)
WebGetSkills == WebAccepts /\ Respond(WebSkillsResponse)
WebPostSearch(query) == WebAccepts /\ Respond(WebSearchResponse(query))
WebPostEmail(args, delivered) ==
    WebAccepts /\ Respond(WebEmailResponse(args, delivered))
WebNotFound == WebAccepts /\ Respond(WebNotFoundResponse)

\* The same routes when executeTool of the dispatcher rejects.
WebPostToolThrown(toolName) ==
    /\ WebAccepts /\ ~WebGate
    /\ Respond(Thrown("POST /api/tools/:toolName", 500,
                      WebToolCatch(ThrownMessage, toolName), toolName))

WebPostMcpThrown(tool) ==
    /\ WebAccepts /\ ~WebGate
    /\ Respond(Thrown("POST /api/mcp", 500,
                      WebMcpCatch(ThrownMessage, tool), tool))

ConvenienceRoutes ==
    { <<"GET /api/personal", "get_personal_info">>,
      <<"GET /api/experience", "get_work_experience">>,
      <<"GET /api/education", "get_education">>,
      <<"GET /api/skills", "get_skills">>,
      <<"POST /api/search", "search_cv">>,
      <<"POST /api/email", "send_email">> }

WebConvenienceThrown(route, name) ==
    /\ WebAccepts /\ ~IsNull(mcpTools)
    /\ Respond(Thrown(route, 500, WebConvenienceCatch(ThrownMessage), name))

WebRoutes ==
    \/ WebGetRoot
    \/ WebGetHealth
    \/ WebGetTools
    \/ \E rq \in Requests : \E delivered \in Deliveries(rq) :
          WebPostTool(rq[1], rq[2], delivered)
    \/ \E rq \in Requests \cup {<<"", NoArgs>>} :
          \E delivered \in Deliveries(rq) :
          WebPostMcp(rq[1], rq[2], delivered)
    \/ WebGetPersonal
    \/ WebGetExperience
    \/ WebGetEducation
    \/ WebGetSkills
    \/ \E query \in {"", " ", "RUST"} : WebPostSearch(query)
    \/ \E args \in ArgChoices :
          \E delivered \in Deliveries(<<"send_email", args>>) :
             WebPostEmail(args, delivered)
    \/ WebNotFound
    \/ \E toolName \in ThrownTools : WebPostToolThrown(toolName)
    \/ \E tool \in ThrownTools : WebPostMcpThrown(tool)
    \/ \E rn \in ConvenienceRoutes : WebConvenienceThrown(rn[1], rn[2])

(***************************************************************************)
(* MCPCVServer: the stdio handlers, getStatus and executeTool              *)
(***************************************************************************)
McpGate == ~isInitialized \/ IsNull(mcpTools)

\* The stdio handlers run once the transport is connected; on an embedded
\* MCPCVServer they are reachable as soon as the object is constructed.
McpStdioAccepts ==
    Running /\ adapter = "mcp"
      /\ (entry = "embedded" \/ (entry = "start" /\ accepting))

McpHttpAccepts ==
    Running /\ adapter = "mcp"
      /\ (entry = "serverless" \/ (entry = "direct" /\ accepting))

McpListToolsResponse ==
    IF McpGate THEN Reply("ListTools", 0, [tools |-> << >>])
    ELSE Reply("ListTools", 0, [tools |-> getToolDefinitions])

\* The payload is the object whose JSON text the handler returns.
McpCallToolCatch(message, name) ==
    [error |-> message, tool |-> name, timestamp |-> "ts"]

McpCallToolResponse(name, args, delivered) ==
    IF McpGate THEN Reply("CallTool", 0, NotInitialized)
    ELSE LET c == Call(mcpTools, name, args, delivered) IN
         IF c.thrown
           THEN Reply("CallTool", 0, McpCallToolCatch(c.message, name))
           ELSE Dispatched("CallTool", 0, c.result, name, args, c.result)

\* this.cvParser?.getCVData(): the record the current parser has parsed.
McpParserData == IF cvParser = 0 THEN Null ELSE inv[cvParser].cvData

getStatus ==
    [initialized |-> isInitialized,
     cvData |-> ~IsNull(McpParserData),
     emailConfigured |-> Configured(emailService),
     toolsReady |-> ~IsNull(mcpTools)]

\* The catch block of MCPCVServer.executeTool.
McpExecuteToolCatch(message, toolName) ==
    [success |-> FALSE, error |-> message, tool |-> toolName,
     timestamp |-> "ts"]

McpExecuteTool(route, toolName, args, delivered) ==
    IF McpGate
      THEN Reply(route, 200,
                 [success |-> FALSE,
                  error |-> "Server not properly initialized",
                  timestamp |-> "ts"])
    ELSE LET c == Call(mcpTools, toolName, args, delivered) IN
         IF c.thrown
           THEN Reply(route, 200, McpExecuteToolCatch(c.message, toolName))
           ELSE Dispatched(route, 200, c.result, toolName, args, c.result)

McpListTools == McpStdioAccepts /\ Respond(McpListToolsResponse)

McpCallTool(name, args, delivered) ==
    McpStdioAccepts /\ Respond(McpCallToolResponse(name, args, delivered))

McpGetStatus ==
    /\ Running /\ adapter = "mcp" /\ entry \in {"embedded", "start"}
    /\ Respond(Reply("getStatus", 0, getStatus))

McpDirectExecute(toolName, args, delivered) ==
    /\ Running /\ adapter = "mcp" /\ entry = "embedded"
    /\ Respond(McpExecuteTool("executeTool", toolName, args, delivered))

\* The same handlers when executeTool of the dispatcher rejects.
McpCallToolThrown(name) ==
    /\ McpStdioAccepts /\ ~McpGate
    /\ Respond(Thrown("CallTool", 0,
                      McpCallToolCatch(ThrownMessage, name), name))

McpDirectExecuteThrown(toolName) ==
    /\ Running /\ adapter = "mcp" /\ entry = "embedded" /\ ~McpGate
    /\ Respond(Thrown("executeTool", 200,
                      McpExecuteToolCatch(ThrownMessage, toolName), toolName))

\* initialize() called on an MCPCVServer constructed by another module.
McpReinitialize(i) ==
    /\ entry = "embedded"
    /\ McpInitialize(i, "ext")

(***************************************************************************)
(* The serverless routes of index.js.  A route that awaits initialize()    *)
(* is an invocation with that route as its caller; the rest of the handler *)
(* runs once the invocation has resolved.                                  *)
(***************************************************************************)
ApiHealth ==
    /\ McpHttpAccepts
    /\ Respond(Reply("GET /api/health", 200,
                     [status |-> "ok",
                      message |-> "MCP CV Server API is running",
                      timestamp |-> "ts"]))

ApiToolsBegin(i) ==
    /\ McpHttpAccepts
    /\ McpInitialize(i, "GET /api/tools")

ApiToolsResponse ==
    IF IsNull(mcpTools)
      THEN Reply("GET /api/tools", 500,
                 [success |-> FALSE, error |-> "Tools not available"])
      ELSE Reply("GET /api/tools", 200,
                 [success |-> TRUE, tools |-> getToolDefinitions,
                  descriptions |-> getToolDefinitions])

ApiToolsEnd(i) ==
    /\ Running /\ adapter = "mcp"
    /\ inv[i].caller = "GET /api/tools" /\ inv[i].pc = "resolved"
    /\ resp' = ApiToolsResponse
    /\ inv' = [inv EXCEPT ![i].pc = "returned"]
    /\ UNCHANGED << adapter, entry, env, mcpTools, isInitialized, emailService,
                    cvParser, accepting, exited >>

ApiCallMissingTool ==
    /\ McpHttpAccepts
    /\ Respond(Reply("POST /api/tools/call", 400,
                     [success |-> FALSE, error |-> "Tool name is required"]))

\* The request body is read before initialize() is awaited and only used
\* after it: the tool and its arguments are drawn where they are used.
ApiCallBegin(i) ==
    /\ McpHttpAccepts
    /\ McpInitialize(i, "POST /api/tools/call")

ApiCallEnd(i, tool, args, delivered) ==
    /\ Running /\ adapter = "mcp"
    /\ inv[i].caller = "POST /api/tools/call" /\ inv[i].pc = "resolved"
    /\ resp' = McpExecuteTool("POST /api/tools/call", tool, args, delivered)
    /\ inv' = [inv EXCEPT ![i].pc = "returned"]
    /\ UNCHANGED << adapter, entry, env, mcpTools, isInitialized, emailService,
                    cvParser, accepting, exited >>

ApiCallEndThrown(i, tool) ==
    /\ Running /\ adapter = "mcp" /\ ~McpGate
    /\ inv[i].caller = "POST /api/tools/call" /\ inv[i].pc = "resolved"
    /\ resp' = Thrown("POST /api/tools/call", 200,
                      McpExecuteToolCatch(ThrownMessage, tool), tool)
    /\ inv' = [inv EXCEPT ![i].pc = "returned"]
    /\ UNCHANGED << adapter, entry, env, mcpTools, isInitialized, emailService,
                    cvParser, accepting, exited >>

McpRoutes ==
    \/ McpListTools
    \/ \E rq \in Requests : \E delivered \in Deliveries(rq) :
          McpCallTool(rq[1], rq[2], delivered)
    \/ McpGetStatus
    \/ \E rq \in Requests : \E delivered \in Deliveries(rq) :
          McpDirectExecute(rq[1], rq[2], delivered)
    \/ \E i \in Invs : McpReinitialize(i)
    \/ ApiHealth
    \/ \E i \in Invs : ApiToolsBegin(i)
    \/ \E i \in Invs : ApiToolsEnd(i)
    \/ ApiCallMissingTool
    \/ \E i \in Invs : ApiCallBegin(i)
    \/ \E i \in Invs, rq \in Requests : \E delivered \in Deliveries(rq) :
          ApiCallEnd(i, rq[1], rq[2], delivered)
    \/ \E name \in ThrownTools : McpCallToolThrown(name)
    \/ \E toolName \in ThrownTools : McpDirectExecuteThrown(toolName)
    \/ \E i \in Invs, tool \in ThrownTools : ApiCallEndThrown(i, tool)

\* The response has been handed to the transport.
ResponseSent ==
    /\ resp # NoResp
    /\ resp' = NoResp
    /\ UNCHANGED << adapter, entry, env, mcpTools, isInitialized, emailService,
                    cvParser, inv, accepting, exited >>

Next == Lifecycle \/ WebRoutes \/ McpRoutes \/ ResponseSent

Spec == Init /\ [][Next]_vars

(***************************************************************************)
(* POST /api/mcp over the results a dispatcher can hand back.  The branches *)
(* of the handler test the fields of the result, so they are applied here  *)
(* to every shape of result with a success field, on a WebServer whose     *)
(* lifecycle has succeeded.                                                *)
(***************************************************************************)
ResultShapes ==
    { [success |-> TRUE, data |-> << "x" >>],
      [success |-> TRUE, data |-> << "x" >>, summary |-> "one entry"],
      [success |-> TRUE, data |-> << >>, error |-> "partial"],
      [success |-> TRUE],
      [success |-> FALSE, error |-> "InvalidArguments", tool |-> "t",
       timestamp |-> "ts"],
      [success |-> FALSE, error |-> "DeliveryFailed"],
      [success |-> FALSE, error |-> ""],
      [success |-> FALSE],
      [success |-> FALSE, data |-> << "x" >>] }

InitMcpResult ==
    /\ adapter = "web"
    /\ entry \in {"start", "embedded"}
    /\ env \in {e \in Envs : ~e.ctorThrows}
    /\ mcpTools = Some(WebDispatcher(ParsedRecord, Some(NewEmailService)))
    /\ isInitialized = TRUE
    /\ emailService = Null
    /\ cvParser = 0
    /\ \E success \in BOOLEAN :
          inv = [i \in Invs |->
                   IF i = 1
                     THEN [pc |-> IF entry = "start" THEN "returned"
                                                     ELSE "resolved",
                           caller |-> IF entry = "start" THEN "start"
                                                         ELSE "ext",
                           cvData |-> Some(ParsedRecord),
                           chan |-> Some(NewEmailService),
                           ret |-> "true", parse |-> "ok",
                           probe |-> IF success THEN "ok" ELSE "fail",
                           built |-> mcpTools]
                     ELSE IdleInv]
    /\ accepting = (entry = "start")
    /\ exited = FALSE
    /\ resp = NoResp

\* POST /api/mcp when executeTool of the dispatcher resolves with `result`.
WebPostMcpReturned(tool, result) ==
    /\ WebAccepts /\ ~WebGate
    /\ Respond(WebMcpResult(result, tool, NoArgs))

NextMcpResult ==
    \/ \E rq \in Requests, result \in ResultShapes :
          WebPostMcpReturned(rq[1], result)
    \/ ResponseSent

SpecMcpResult == InitMcpResult /\ [][NextMcpResult]_vars

(***************************************************************************)
(* Properties                                                              *)
(***************************************************************************)
Finished(i) == inv[i].pc \in {"resolved", "returned"}

InFlight(i) == inv[i].pc \in {"awaitParse", "awaitProbe"}

\* C1: when the parse of an invocation fails, the invocation still finishes,
\* having built a dispatcher over the empty record and set the flag, and
\* returns false; the readiness gates then let requests through, and a
\* get_work_experience request served by a dispatcher over the empty record
\* succeeds with an empty sequence.
C1_ParseFailureDegrades ==
    /\ \A i \in Invs : inv[i].parse = "fail" =>
          /\ Finished(i)
          /\ inv[i].ret = "false"
          /\ ~IsNull(inv[i].built)
          /\ Val(inv[i].built).record = EmptyRecord
          /\ isInitialized
          /\ ~IsNull(mcpTools)
          /\ ~WebGate
          /\ ~McpGate
    /\ (resp.called /\ resp.tool = "get_work_experience"
          /\ resp.outcome # "Thrown"
          /\ Val(resp.disp).record = EmptyRecord)
         => /\ resp.status \in {0, 200}
            /\ "success" \in DOMAIN resp.body
            /\ resp.body.success = TRUE
            /\ resp.body.data = << >>

\* A WebServer whose parse failed answers GET /api/experience from the
\* fallback dispatcher that the failed invocation built.
C1_Witness ==
    /\ adapter = "web"
    /\ \E i \in Invs :
          /\ inv[i].parse = "fail"
          /\ inv[i].ret = "false"
          /\ mcpTools = inv[i].built
    /\ resp.route = "GET /api/experience"
    /\ resp.called
    /\ resp.disp = mcpTools
    /\ resp.body.data = << >>

\* C2: initialize() never rejects and never ends the process, and every
\* invocation that has finished leaves the flag true and a dispatcher.
C2_InitializeAlwaysCompletes ==
    /\ ~exited
    /\ \A i \in Invs :
          /\ inv[i].pc # "rejected"
          /\ (inv[i].pc # "idle" /\ ~InFlight(i))
               => (isInitialized /\ ~IsNull(mcpTools))

\* C3: every dispatcher that initialize() builds is given a channel that is
\* not null (its record is an argument of the constructor in every call).
C3_DispatcherGetsChannel ==
    /\ \A i \in Invs :
          ~IsNull(inv[i].built) => ~IsNull(Val(inv[i].built).channel)
    /\ ~IsNull(mcpTools) => ~IsNull(Val(mcpTools).channel)

\* C4: no step resets the initialized flag to false or the dispatcher
\* reference to null.
C4_NeverUninitializedAgain ==
    [][ /\ (isInitialized => isInitialized')
        /\ (~IsNull(mcpTools) => ~IsNull(mcpTools')) ]_vars

\* An initialized server with a re-invoked lifecycle in flight.
C4_Witness ==
    /\ isInitialized
    /\ ~IsNull(mcpTools)
    /\ \E i, j \in Invs : Finished(i) /\ InFlight(j)

\* C5: an invocation whose probe reported a failure or threw has finished
\* with the flag set and a dispatcher in place, and the tool definitions are
\* listed to a client that asks for them.
C5_FailedProbeStillReady ==
    \A i \in Invs : inv[i].probe \in {"fail", "throw"} =>
        /\ Finished(i)
        /\ isInitialized
        /\ ~IsNull(mcpTools)
        /\ adapter = "web" =>
              /\ WebToolsResponse.status = 200
              /\ WebToolsResponse.body.tools = getToolDefinitions
        /\ adapter = "mcp" =>
              /\ McpListToolsResponse.body.tools = getToolDefinitions
              /\ ApiToolsResponse.status = 200

\* The probe of a WebServer threw and GET /api/tools lists the tools.
C5_Witness ==
    /\ adapter = "web"
    /\ \E i \in Invs : inv[i].probe = "throw" /\ Finished(i)
    /\ resp.route = "GET /api/tools"
    /\ resp.status = 200

\* C6: an invocation whose parse succeeded has, when it returns, built its
\* dispatcher over the record it parsed, whatever the probe did.
C6_ParsedRecordKept ==
    \A i \in Invs : (inv[i].parse = "ok" /\ Finished(i)) =>
        Val(inv[i].built).record = Val(inv[i].cvData)

WebToolRoutes ==
    { "GET /api/tools", "POST /api/tools/:toolName", "POST /api/mcp",
      "GET /api/personal", "GET /api/experience", "GET /api/education",
      "GET /api/skills", "POST /api/search", "POST /api/email" }

\* C7: while the WebServer has no dispatcher, every route that lists or
\* executes tools answers a request that passed the route's own validation
\* (a 400 is a request without tool name, query or mail fields) with 503,
\* without calling a dispatcher.
C7_NoDispatcherMeans503 ==
    (adapter = "web" /\ IsNull(mcpTools) /\ resp.route \in WebToolRoutes
       /\ resp.status # 400)
      => (resp.status = 503 /\ ~resp.called)

\* C8: the two tool-execution routes of the WebServer answer 200 exactly for
\* a successful result, 400 for InvalidArguments and for a request without
\* a tool name, 500 for UnknownTool; an unmatched route answers 404.
C8_StatusMapping ==
    /\ (adapter = "web" /\ resp.called
          /\ resp.route \in {"POST /api/mcp", "POST /api/tools/:toolName"})
         => /\ (resp.status = 200) <=> (resp.outcome = "Success")
            /\ resp.outcome = "InvalidArguments" => resp.status = 400
            /\ resp.outcome = "UnknownTool" => resp.status = 500
    /\ (resp.route = "POST /api/mcp" /\ ~resp.called /\ resp.status # 503)
         => resp.status = 400
    /\ resp.route = "*" => resp.status = 404

\* C9: the payload of every CallTool response has a boolean success field,
\* and a payload that is not a success has success false and an error.
C9_StdioEnvelope ==
    resp.route = "CallTool" =>
        /\ "success" \in DOMAIN resp.body
        /\ resp.body.success \in BOOLEAN
        /\ resp.outcome # "Success" =>
              /\ resp.body.success = FALSE
              /\ "error" \in DOMAIN resp.body
              /\ resp.body.error # ""

\* A dispatcher as the constructor makes it: a record and a channel
\* reference, set together.
WholeDispatcher(d) ==
    /\ d.record \in {EmptyRecord} \cup ParsedRecords
    /\ d.channel \in {Null, Some([configured |-> TRUE]),
                     Some([configured |-> FALSE])}

\* C10: on MCPCVServer, once a lifecycle has completed, the dispatcher
\* reference is never null and is a dispatcher that one invocation built
\* whole, also while later lifecycles are in flight; every tool request
\* handled in such a state is dispatched to that dispatcher.
C10_RequestsSeeWholeDispatcher ==
    /\ (adapter = "mcp" /\ \E i \in Invs : Finished(i)) =>
          /\ ~IsNull(mcpTools)
          /\ WholeDispatcher(Val(mcpTools))
          /\ \E j \in Invs : mcpTools = inv[j].built
          /\ \A rq \in Requests : \A delivered \in Deliveries(rq) :
                LET viaHttp == McpExecuteTool("POST /api/tools/call",
                                              rq[1], rq[2], delivered)
                    viaStdio == McpCallToolResponse(rq[1], rq[2], delivered)
                IN  /\ viaHttp.called /\ viaHttp.disp = mcpTools
                    /\ viaStdio.called /\ viaStdio.disp = mcpTools
          /\ ApiToolsResponse.status = 200
    /\ (adapter = "mcp" /\ resp.called) => WholeDispatcher(Val(resp.disp))

\* POST /api/tools/call was served by the dispatcher of the lifecycle it
\* awaited while the lifecycle of a later request is in flight.
C10_Witness ==
    /\ adapter = "mcp"
    /\ resp.route = "POST /api/tools/call"
    /\ resp.called
    /\ \E i, j \in Invs :
          /\ inv[i].pc = "returned"
          /\ inv[i].caller = "POST /api/tools/call"
          /\ resp.disp = inv[i].built
          /\ i < j
          /\ InFlight(j)

\* Every lifecycle run so far has fallen back to the empty record, and none
\* is in flight: the dispatcher in place is a fallback dispatcher.
FellBack ==
    /\ \E i \in Invs : Finished(i)
    /\ \A i \in Invs : ~InFlight(i)
    /\ \A i \in Invs : Finished(i) => inv[i].ret = "false"
    /\ ~IsNull(mcpTools)
    /\ Val(mcpTools).record = EmptyRecord

\* What the status surface answers after a lifecycle that succeeded, in the
\* same environment.
RootAfterSuccess ==
    [message |-> "MCP CV Backend API", status |-> "running",
     timestamp |-> "ts", initialized |-> TRUE]

HealthAfterSuccess ==
    [status |-> "healthy", initialized |-> TRUE, timestamp |-> "ts"]

StatusAfterSuccess ==
    [initialized |-> TRUE, cvData |-> TRUE,
     emailConfigured |-> env.configured, toolsReady |-> TRUE]

\* C11: after a lifecycle that fell back to the empty record, GET / and
\* GET /health of the WebServer and getStatus of the MCPCVServer answer
\* something else than they answer after a lifecycle that succeeded.
C11_DegradedObservable ==
    FellBack =>
        /\ adapter = "web" =>
              /\ WebRootResponse.body # RootAfterSuccess
              /\ WebHealthResponse.body # HealthAfterSuccess
        /\ adapter = "mcp" => getStatus # StatusAfterSuccess

\* C12: POST /api/email with a recipient, subject or body that is absent or
\* empty is answered 400 without a call to the dispatcher and without a
\* message handed to the channel, whatever the state of the lifecycle.
C12_IncompleteMailRejected ==
    /\ \A args \in ArgChoices : \A delivered \in BOOLEAN :
          ~ValidMail(args) =>
              LET r == WebEmailResponse(args, delivered)
              IN  /\ r.status = 400
                  /\ ~r.called
                  /\ ~r.sent
                  /\ IsNull(r.disp)
    /\ (resp.route = "POST /api/email" /\ resp.status = 400)
         => (~resp.called /\ ~resp.sent)

\* An initialized WebServer whose dispatcher has a configured channel has
\* answered 400 to POST /api/email.
C12_Witness ==
    /\ adapter = "web"
    /\ isInitialized
    /\ ~IsNull(mcpTools)
    /\ Configured(Val(mcpTools).channel)
    /\ resp.route = "POST /api/email"
    /\ resp.status = 400
    /\ ~resp.called

\* C13: a response body holds a stack trace only in a process whose DEBUG is
\* set.  With DEBUG unset, what the catch blocks of POST /api/mcp and of the
\* CallTool handler answer when the dispatcher throws is the error message,
\* the tool name and the timestamp and nothing else, and no answer to a
\* failed request has a field beyond these, the success flag and the path
\* of an unmatched route.
C13_NoStackWithoutDebug ==
    /\ "details" \in DOMAIN resp.body => env.debug
    /\ (~env.debug /\ resp.outcome = "Thrown"
          /\ resp.route \in {"POST /api/mcp", "CallTool"})
         => /\ DOMAIN resp.body = {"error", "tool", "timestamp"}
            /\ resp.body.error = ThrownMessage
            /\ resp.body.tool = resp.tool
    /\ (~env.debug /\ (resp.status >= 400 \/ resp.outcome = "Thrown"))
         => DOMAIN resp.body \subseteq
               {"success", "error", "tool", "timestamp", "path"}

\* The dispatcher of an initialized WebServer threw on POST /api/mcp in a
\* process without DEBUG.
C13_Witness ==
    /\ adapter = "web"
    /\ ~env.debug
    /\ resp.route = "POST /api/mcp"
    /\ resp.outcome = "Thrown"
    /\ resp.status = 500
    /\ resp.called

\* C14: when POST /api/tools/call executes its tool after its own
\* initialize() has parsed the document and returned true, the dispatcher
\* it calls holds a parsed record, whatever the lifecycles of other requests
\* have done in the meantime.
C14_OwnParseOwnRecord ==
    [][ \A i \in Invs :
          ( /\ inv[i].caller = "POST /api/tools/call"
            /\ inv[i].pc = "resolved"
            /\ inv[i].parse = "ok"
            /\ inv[i].ret = "true"
            /\ inv'[i].pc = "returned"
            /\ resp'.called )
          => Val(resp'.disp).record \in ParsedRecords ]_vars

\* The channel that invocation i has constructed: a local constant in
\* WebServer.initialize, the field this.emailService in MCPCVServer.
ChannelOf(i) == IF adapter = "web" THEN inv[i].chan ELSE emailService

\* C15: in every invocation of initialize() the parse is awaited only once
\* the channel is constructed; a dispatcher is constructed only over a
\* record that exists (the record the invocation's parse delivered, or the
\* empty fallback record); the probe is issued only once the dispatcher is
\* constructed, and on a channel that exists; and the flag is set only by
\* the last step of an invocation, after the probe has returned when the
\* invocation returns true.
C15_StepsInOrder ==
    /\ \A i \in Invs :
          /\ (inv[i].pc = "awaitParse" \/ inv[i].parse # "none")
               => ~IsNull(ChannelOf(i))
          /\ ~IsNull(inv[i].built) =>
                \/ /\ inv[i].parse = "ok"
                   /\ Val(inv[i].built).record = Val(inv[i].cvData)
                \/ /\ inv[i].ret = "false"
                   /\ Val(inv[i].built).record = EmptyRecord
          /\ (inv[i].pc = "awaitProbe" \/ inv[i].probe # "none")
               => /\ inv[i].parse = "ok"
                  /\ ~IsNull(inv[i].built)
                  /\ ~IsNull(mcpTools)
                  /\ ~IsNull(ChannelOf(i))
          /\ inv[i].pc = "awaitProbe"
               => Val(inv[i].built).record = Val(inv[i].cvData)
          /\ inv[i].ret = "true"
               => /\ inv[i].probe \in {"ok", "fail"}
                  /\ isInitialized
          /\ inv[i].ret # "none" => Finished(i)
    /\ isInitialized => \E i \in Invs : inv[i].ret # "none"

\* An invocation of WebServer.initialize has gone through all five steps.
C15_Witness ==
    /\ adapter = "web"
    /\ \E i \in Invs :
          /\ ~IsNull(inv[i].chan)
          /\ inv[i].parse = "ok"
          /\ Val(inv[i].built).record = Val(inv[i].cvData)
          /\ inv[i].probe = "ok"
          /\ inv[i].ret = "true"
          /\ mcpTools = inv[i].built
    /\ isInitialized

\* C16: every failure result that MCPCVServer.executeTool makes itself, for
\* want of an initialized dispatcher or because the dispatcher threw, is a
\* returned value with success false, an error message, the tool name and
\* a timestamp.
C16_FailureResultTagged ==
    ( /\ resp.route \in {"executeTool", "POST /api/tools/call"}
      /\ resp.status = 200
      /\ (~resp.called \/ resp.outcome = "Thrown") )
    => /\ "success" \in DOMAIN resp.body
       /\ resp.body.success = FALSE
       /\ "error" \in DOMAIN resp.body
       /\ resp.body.error # ""
       /\ "tool" \in DOMAIN resp.body
       /\ "timestamp" \in DOMAIN resp.body

\* C17: POST /api/mcp answers 200 with success true only for a result of
\* the dispatcher whose success field is true, and never for a result whose
\* success field is false, with or without an error string.
C17_McpAgreesWithSuccess ==
    ( /\ resp.route = "POST /api/mcp"
      /\ resp.called
      /\ resp.outcome # "Thrown"
      /\ resp.status = 200
      /\ "success" \in DOMAIN resp.body
      /\ resp.body.success = TRUE )
    => resp.outcome = "Success"

\* C18: whenever the initialized flag is true the dispatcher reference is
\* not null, in both adapters, on the success path and on the fallback
\* path, also while further lifecycles are in flight.
C18_FlagImpliesDispatcher ==
    isInitialized => ~IsNull(mcpTools)

\* One lifecycle has returned true, another has fallen back, and a request
\* is answered from the dispatcher in place.
C18_Witness ==
    /\ isInitialized
    /\ ~IsNull(mcpTools)
    /\ \E i, j \in Invs :
          /\ inv[i].ret = "true"
          /\ inv[j].ret = "false"
          /\ mcpTools = inv[j].built
    /\ resp.called
    /\ resp.disp = mcpTools

\* C19: on the start paths (WebServer.start, MCPCVServer.start, index.js
\* run directly) the port is listened on, or the transport connected, only
\* after the first initialize() has resolved, and every request of a client
\* is answered by an initialized server with a dispatcher: none gets the
\* answer of the uninitialized state.
C19_NoRequestBeforeInitialized ==
    entry \in {"start", "direct"} =>
        /\ accepting =>
              /\ inv[1].pc = "returned"
              /\ inv[1].ret # "none"
              /\ isInitialized
              /\ ~IsNull(mcpTools)
        /\ resp.route \notin {"none", "getStatus"} =>
              /\ accepting
              /\ isInitialized
              /\ ~IsNull(mcpTools)
              /\ resp.status # 503
              /\ "error" \in DOMAIN resp.body
                   => resp.body.error # NotInitialized.error
              /\ resp.route = "ListTools"
                   => resp.body.tools = getToolDefinitions

\* A WebServer started through start() has answered POST /api/mcp from its
\* dispatcher.
C19_Witness ==
    /\ adapter = "web"
    /\ entry = "start"
    /\ accepting
    /\ resp.route = "POST /api/mcp"
    /\ resp.called
    /\ resp.status = 200

====
